---- MODULE Spec2Model ----
(***************************************************************************)
(* Model of the money package of csfw (src/unnamed/part_000): the Currency *)
(* value type, its self-referential option functions, its arithmetic and   *)
(* its Swedish rounding; of the standard logger the package reports to     *)
(* (src/config/pkgtpl/config_cron.go.tpl); and of the merging of a         *)
(* SectionSlice (src/config/elements_section.go).                          *)
(*                                                                         *)
(* int64 is modelled at bits bits (two's complement, wrapping); float64    *)
(* values are modelled as exact rationals <<n, d>> with the IEEE special   *)
(* values kept apart, and a float-to-integer conversion of a value that    *)
(* int64 cannot hold yields what the build's architecture yields.          *)
(***************************************************************************)
EXTENDS Integers, Sequences, FiniteSets, TLC

VARIABLES c, previous, arch, call, old, older, bits, out, logger, ss, supplied

vars == <<c, previous, arch, call, old, older, bits, out, logger, ss, supplied>>

\* what the operations on a Currency leave alone: the width of int64 in this
\* behaviour, the last value handed out, the logger and the SectionSlice
apart == <<bits, out, logger, ss, supplied>>

(***************************************************************************)
(* Bounds of the model.                                                    *)
(***************************************************************************)
\* width in bits of the modelled int64 in the option and arithmetic
\* specifications; Init copies it to bits
Width == 5
\* number of out-of-scope Interval values tried beyond interval999
BadIntervals == 2
\* longest option list handed to one Option call in the batch specification
MaxOpts == 2
\* width in bits of the modelled int64 in the Swedish rounding specification,
\* where dp is 100: the amounts reach 1.27, every ending in cents once
WideWidth == 8
\* longest argument list handed to StdLogger.Error
MaxArgs == 3
\* the remainders handed to rnd are the multiples of 1/(2 * RndHalves) in (-1, 1)
RndHalves == 2
\* number of sections handed to Merge and MergeMultiple in one behaviour
MaxMerged == 3

(***************************************************************************)
(* Integers of bits bits.                                                  *)
(***************************************************************************)
RECURSIVE Pow2(_)
Pow2(n) == IF n = 0 THEN 1 ELSE 2 * Pow2(n - 1)

MaxInt64 == Pow2(bits - 1) - 1
MinInt64 == -Pow2(bits - 1)
Int64 == MinInt64..MaxInt64

InRange(x) == x >= MinInt64 /\ x <= MaxInt64

\* the two's complement value of the low bits bits of x
Wrap(x) ==
    LET u == x % Pow2(bits)
    IN  IF u >= Pow2(bits - 1) THEN u - Pow2(bits) ELSE u

AbsInt(x) == IF x < 0 THEN -x ELSE x

\* Go's integer division: the quotient truncated toward zero
Quot(a, b) ==
    LET q == AbsInt(a) \div AbsInt(b)
    IN  Wrap(IF (a < 0) = (b < 0) THEN q ELSE -q)

\* Go's % : the remainder has the sign of the dividend
Rem(a, b) ==
    LET q == AbsInt(a) \div AbsInt(b)
    IN  a - b * (IF (a < 0) = (b < 0) THEN q ELSE -q)

RECURSIVE BitXor(_, _, _)
BitXor(x, y, n) ==
    IF n = 0 THEN 0
    ELSE (((x % 2) + (y % 2)) % 2) + 2 * BitXor(x \div 2, y \div 2, n - 1)

RECURSIVE BitAnd(_, _, _)
BitAnd(x, y, n) ==
    IF n = 0 THEN 0
    ELSE ((x % 2) * (y % 2)) + 2 * BitAnd(x \div 2, y \div 2, n - 1)

RECURSIVE BitAndNot(_, _, _)
BitAndNot(x, y, n) ==
    IF n = 0 THEN 0
    ELSE ((x % 2) * (1 - (y % 2))) + 2 * BitAndNot(x \div 2, y \div 2, n - 1)

Unsigned(x) == x % Pow2(bits)

\* x ^ y, x & y and x &^ y on int64
Xor(x, y) == Wrap(BitXor(Unsigned(x), Unsigned(y), bits))
And(x, y) == Wrap(BitAnd(Unsigned(x), Unsigned(y), bits))
AndNot(x, y) == Wrap(BitAndNot(Unsigned(x), Unsigned(y), bits))

(***************************************************************************)
(* The standard logger (package log, in src/config/pkgtpl/config_cron.go.tpl) *)
(***************************************************************************)
StdLevelFatal == 1
StdLevelError == 2
StdLevelWarn == 3
StdLevelInfo == 4
StdLevelDebug == 5
StdLevelTrace == 6

\* NewStdLogger(): the level is StdLevelInfo until an option or SetLevel sets it
NewStdLogger == [level |-> StdLevelInfo]

\* l.SetLevel(level): any int is taken
SetLevel(l, level) == [l EXCEPT !.level = level]

\* l.Log(level, msg, args): "silent" when the logger's level is below level,
\* "print" when an entry is written, "panic" when the call panics.  stdFormat
\* builds the entry from any msg and any args without failing.
Log(l, level, msg, args) ==
    IF l.level >= level
    THEN IF level \in {StdLevelTrace, StdLevelDebug, StdLevelInfo, StdLevelWarn,
                       StdLevelError}
         THEN "print"
         ELSE "panic"
    ELSE "silent"

\* l.Fatal(msg, args...)
Fatal(l, msg, args) == Log(l, StdLevelFatal, msg, args)

\* the arguments that are error values
IsError(x) == x \in {"e1", "e2"}

\* l.Error(msg, args...): panic tells whether the call panics, ret is the
\* error returned (msg stands for errors.New(msg)), log what the deferred Log
\* did.  args[1] of the code is args[2] here.
Error(l, msg, args) ==
    LET logged == Log(l, StdLevelError, msg, args)
    IN  IF Len(args) % 2 = 0
        THEN IF Len(args) < 2
             THEN [op |-> "Error", panic |-> TRUE, ret |-> "none", log |-> logged]
             ELSE IF IsError(args[2])
                  THEN [op |-> "Error", panic |-> logged = "panic",
                        ret |-> args[2], log |-> logged]
                  ELSE [op |-> "Error", panic |-> logged = "panic",
                        ret |-> msg, log |-> logged]
        ELSE [op |-> "Error", panic |-> logged = "panic", ret |-> msg,
              log |-> logged]

(***************************************************************************)
(* Package constants and defaults.                                         *)
(***************************************************************************)
Interval000 == 0
Interval005 == 1
Interval010 == 2
Interval015 == 3
Interval025 == 4
Interval050 == 5
Interval100 == 6
interval999 == 7

\* the package defaults New() installs
guard == 10000
dp == 10000
DefaultFormat == 1
DefaultJSONEncode == 1
DefaultJSONDecode == 1
\* what NewJSONEncoder() and NewJSONDecoder() return
NewJSONEncoder == 3
NewJSONDecoder == 3

\* the architectures whose float-to-integer conversions are modelled
Archs == {"amd64", "arm64", "riscv64"}

\* int64(NaN): implementation-dependent in Go
NaNToInt(a) ==
    CASE a = "amd64" -> MinInt64
      [] a = "arm64" -> 0
      [] OTHER -> MaxInt64

\* int64(f) for f above the int64 range, +Inf included
PosOverToInt(a) == IF a = "amd64" THEN MinInt64 ELSE MaxInt64

\* int64(f) for f below the int64 range, -Inf included
NegOverToInt(a) == MinInt64

(***************************************************************************)
(* math.Log, truncated by int64(): the number of powers of e not above p.  *)
(***************************************************************************)
ExpCeil == <<3, 8, 21, 55, 149, 404, 1097, 2981, 8104, 22027, 59875, 162755>>

\* int64(math.Log(float64(p64)))
LogInt(a, p64) ==
    IF p64 < 0 THEN NaNToInt(a)
    ELSE IF p64 = 0 THEN NegOverToInt(a)
    ELSE Cardinality({k \in 1..Len(ExpCeil) : ExpCeil[k] <= p64})

(***************************************************************************)
(* Currency and its construction.                                          *)
(***************************************************************************)
Nil == [kind |-> "nil", v |-> 0]

\* the struct literal of New, before the options are applied
NewLiteral ==
    [m |-> 0, Valid |-> FALSE, Interval |-> Interval000,
     fmt |-> DefaultFormat, jm |-> DefaultJSONEncode, jum |-> DefaultJSONDecode,
     guard |-> guard, guardf |-> guard, dp |-> dp, dpf |-> dp]

(***************************************************************************)
(* The option functions.  An OptionFunc is the closure [kind, v]: v is the *)
(* value the constructor captured after validating its argument.           *)
(***************************************************************************)
\* Swedish with > in the place of >=
SwedishOffByOne(i) ==
    [kind |-> "Swedish", v |-> IF i > interval999 THEN Interval000 ELSE i]

Swedish(i) ==
    [kind |-> "Swedish", v |-> IF i >= interval999 THEN Interval000 ELSE i]

Guard(g) ==
    [kind |-> "Guard", v |-> IF g = 0 THEN 1 ELSE g]

PrecisionValue(a, p) ==
    LET l  == LogInt(a, p)
        p1 == IF p # 0 /\ Rem(l, 2) # 0 THEN dp ELSE p
    IN  IF p1 = 0 THEN 1 ELSE p1

Precision(a, p) ==
    [kind |-> "Precision", v |-> PrecisionValue(a, p)]

Format(f) ==
    [kind |-> "Format", v |-> f]

JSONMarshal(m) ==
    [kind |-> "JSONMarshal", v |-> IF m = 0 THEN NewJSONEncoder ELSE m]

JSONUnmarshal(um) ==
    [kind |-> "JSONUnmarshal", v |-> IF um = 0 THEN NewJSONDecoder ELSE um]

\* a caller's option expression [kind, arg] evaluated to its OptionFunc
Build(a, r) ==
    CASE r.kind = "Swedish" -> Swedish(r.arg)
      [] r.kind = "Guard" -> Guard(r.arg)
      [] r.kind = "Precision" -> Precision(a, r.arg)
      [] r.kind = "Format" -> Format(r.arg)
      [] r.kind = "JSONMarshal" -> JSONMarshal(r.arg)
      [] r.kind = "JSONUnmarshal" -> JSONUnmarshal(r.arg)
      [] OTHER -> Nil

\* closures that read previous after the assignment
ApplyOptAfter(a, o, cur) ==
    CASE o.kind = "Swedish" ->
            [cur |-> [cur EXCEPT !.Interval = o.v], inv |-> Swedish(o.v)]
      [] o.kind = "Guard" ->
            [cur |-> [cur EXCEPT !.guard = o.v, !.guardf = o.v],
             inv |-> Guard(o.v)]
      [] o.kind = "Precision" ->
            [cur |-> [cur EXCEPT !.dp = o.v, !.dpf = o.v],
             inv |-> Precision(a, o.v)]
      [] o.kind = "Format" ->
            [cur |-> [cur EXCEPT !.fmt = o.v], inv |-> Format(o.v)]
      [] o.kind = "JSONMarshal" ->
            [cur |-> [cur EXCEPT !.jm = o.v], inv |-> JSONMarshal(o.v)]
      [] OTHER ->
            [cur |-> [cur EXCEPT !.jum = o.v], inv |-> JSONUnmarshal(o.v)]

\* o(c): the closure's body; cur is the Currency after it, inv what it returns
ApplyOpt(a, o, cur) ==
    CASE o.kind = "Swedish" ->
            [cur |-> [cur EXCEPT !.Interval = o.v], inv |-> Swedish(cur.Interval)]
      [] o.kind = "Guard" ->
            [cur |-> [cur EXCEPT !.guard = o.v, !.guardf = o.v],
             inv |-> Guard(cur.guard)]
      [] o.kind = "Precision" ->
            [cur |-> [cur EXCEPT !.dp = o.v, !.dpf = o.v],
             inv |-> Precision(a, cur.dp)]
      [] o.kind = "Format" ->
            [cur |-> [cur EXCEPT !.fmt = o.v], inv |-> Format(cur.fmt)]
      [] o.kind = "JSONMarshal" ->
            [cur |-> [cur EXCEPT !.jm = o.v], inv |-> JSONMarshal(cur.jm)]
      [] OTHER ->
            [cur |-> [cur EXCEPT !.jum = o.v], inv |-> JSONUnmarshal(cur.jum)]

\* a turn that keeps the inverse of the first option applied
OptionStepFirst(a, o, st) ==
    IF o = Nil THEN st
    ELSE [cur |-> ApplyOpt(a, o, st.cur).cur,
          inv |-> IF st.inv = Nil THEN ApplyOpt(a, o, st.cur).inv ELSE st.inv]

\* one turn of the loop of Option
OptionStep(a, o, st) ==
    IF o = Nil THEN st
    ELSE [cur |-> ApplyOpt(a, o, st.cur).cur, inv |-> ApplyOpt(a, o, st.cur).inv]

\* (c *Currency) Option(opts...): the loop over opts, from the first
RECURSIVE OptionLoop(_, _, _)
OptionLoop(a, opts, st) ==
    IF opts = <<>> THEN st
    ELSE OptionLoop(a, Tail(opts), OptionStep(a, Head(opts), st))

Option(a, opts, cur) == OptionLoop(a, opts, [cur |-> cur, inv |-> Nil])

New(a, opts) == Option(a, opts, NewLiteral).cur

(***************************************************************************)
(* The inputs of the option specifications.                                *)
(***************************************************************************)
NoCall == [op |-> "none", opts |-> <<>>, d |-> 0, f |-> <<0, 1>>, inverse |-> 0]

Req(k, x) == [kind |-> k, arg |-> x]

IntervalArgs == 0..(interval999 + BadIntervals) \cup {255}
GuardArgs == {-1, 0, 2}
PrecisionArgs == {-1, 0, 1, 2, 7, 8, 10, 50, 60, 100, 1000, 10000, 100000}

OptReqs ==
    {Req("Swedish", i) : i \in IntervalArgs}
      \cup {Req("Guard", g) : g \in GuardArgs}
      \cup {Req("Precision", p) : p \in PrecisionArgs}

\* the option expressions of the batch specification; "nil" is a nil OptionFunc
BatchReqs ==
    {Req("nil", 0), Req("Swedish", Interval005), Req("Swedish", Interval010),
     Req("Guard", 2), Req("Precision", 10)}

RECURSIVE SeqsUpTo(_, _)
SeqsUpTo(S, n) ==
    IF n = 0 THEN {<<>>}
    ELSE SeqsUpTo(S, n - 1)
           \cup {Append(q, x) : q \in {t \in SeqsUpTo(S, n - 1) : Len(t) = n - 1},
                                x \in S}

BatchSeqs == SeqsUpTo(BatchReqs, MaxOpts)

\* no value handed out yet
NoOut == [op |-> "none"]

\* outside the Currency: int64 is w bits wide, nothing was handed out, the
\* logger is the one NewStdLogger builds and the SectionSlice is empty
Outside(w) ==
    /\ bits = w
    /\ out = NoOut
    /\ logger = NewStdLogger
    /\ ss = <<>>
    /\ supplied = <<>>

Init ==
    /\ Outside(Width)
    /\ arch \in Archs
    /\ c = New(arch, <<>>)
    /\ previous = Nil
    /\ call = NoCall
    /\ old = c
    /\ older = c

\* c.Option(o1, ..., on) with the option expressions reqs
OptionCall(reqs) ==
    LET res == Option(arch, [k \in 1..Len(reqs) |-> Build(arch, reqs[k])], c)
    IN  /\ c' = res.cur
        /\ previous' = res.inv
        /\ call' = [NoCall EXCEPT !.op = "Option", !.opts = reqs]
        /\ old' = c
        /\ older' = c
        /\ UNCHANGED <<arch, apart>>

\* c.Option(previous): the caller applies the OptionFunc the last call returned.
\* call.inverse counts the inverse calls since the last OptionCall (2: two or
\* more), call.opts stays that call's list, and older is the Currency the call
\* before this one started from.
InverseCall ==
    /\ previous # Nil
    /\ call.op = "Option"
    /\ LET res == Option(arch, <<previous>>, c)
       IN  /\ c' = res.cur
           /\ previous' = res.inv
    /\ call' = [call EXCEPT !.inverse = IF call.inverse = 0 THEN 1 ELSE 2]
    /\ old' = c
    /\ older' = old
    /\ UNCHANGED <<arch, apart>>

Next ==
    \/ \E r \in OptReqs : OptionCall(<<r>>)
    \/ InverseCall

Spec == Init /\ [][Next]_vars

NextBatch ==
    \/ \E reqs \in BatchSeqs : OptionCall(reqs)
    \/ InverseCall

SpecBatch == Init /\ [][NextBatch]_vars

(***************************************************************************)
(* Properties of the option functions.                                     *)
(***************************************************************************)
\* the field of cur that the options of kind k set
FieldOf(cur, k) ==
    CASE k = "Swedish" -> cur.Interval
      [] k = "Guard" -> cur.guard
      [] k = "Precision" -> cur.dp
      [] k = "Format" -> cur.fmt
      [] k = "JSONMarshal" -> cur.jm
      [] OTHER -> cur.jum

RECURSIVE IsPowerOfTen(_)
IsPowerOfTen(p) ==
    \/ p = 1
    \/ p > 1 /\ p % 10 = 0 /\ IsPowerOfTen(p \div 10)

\* the last call was c.Option(k(x)) with the one option expression k(x)
Applied(k, x) ==
    call.op = "Option" /\ call.inverse = 0 /\ call.opts = <<Req(k, x)>>

\* C5: an option of Swedish, Guard or Precision followed by the inverse it
\* returned leaves the Currency exactly as it was before the option: the field
\* it set has its former value and no other field has changed.
C5_InverseRestores ==
    call.inverse >= 1 => c = older

C5_Witness ==
    /\ call.inverse = 1
    /\ call.opts[1].kind = "Precision"
    /\ old.dp # older.dp
    /\ c.dp = older.dp /\ c.dpf = older.dpf

\* C6: Precision(p) with a positive p that is not a power of ten leaves the
\* Currency with the package default precision.
C6_NonPowerFallsBack ==
    \A p \in PrecisionArgs :
        (p > 0 /\ ~IsPowerOfTen(p) /\ Applied("Precision", p)) => c.dp = dp

\* C7: Precision(p) with p a power of ten sets dp and dpf to p.
C7_PowerOfTenStored ==
    \A p \in PrecisionArgs :
        (IsPowerOfTen(p) /\ Applied("Precision", p)) => (c.dp = p /\ c.dpf = p)

\* C8: whatever integers Guard and Precision are given, dp and guard stay
\* strictly positive.
C8_ScalesPositive ==
    c.dp > 0 /\ c.guard > 0

\* C9: Interval is always one of Interval000..Interval100, and Swedish(i) with
\* i outside that set leaves Interval at Interval000.
C9_IntervalDefined ==
    /\ c.Interval \in Interval000..Interval100
    /\ \A i \in IntervalArgs :
          (i \notin Interval000..Interval100 /\ Applied("Swedish", i))
             => c.Interval = Interval000

C9_Witness ==
    /\ Applied("Swedish", 255)
    /\ old.Interval = Interval050
    /\ c.Interval = Interval000

(***************************************************************************)
(* Properties of Option on a list of options.                              *)
(***************************************************************************)
\* the non-nil OptionFuncs of the option expressions reqs, in argument order
NonNilOpts(reqs) ==
    SelectSeq([k \in 1..Len(reqs) |-> Build(arch, reqs[k])], LAMBDA o : o # Nil)

\* the value the last option of kind k in opts carries, or dflt without one
LastOfKind(opts, k, dflt) ==
    LET idx == {i \in 1..Len(opts) : opts[i].kind = k}
    IN  IF idx = {} THEN dflt
        ELSE opts[CHOOSE i \in idx : \A j \in idx : j <= i].v

\* cur with every field at the value its last option in opts gives it
LastWins(cur, opts) ==
    [m |-> cur.m, Valid |-> cur.Valid,
     Interval |-> LastOfKind(opts, "Swedish", cur.Interval),
     fmt |-> LastOfKind(opts, "Format", cur.fmt),
     jm |-> LastOfKind(opts, "JSONMarshal", cur.jm),
     jum |-> LastOfKind(opts, "JSONUnmarshal", cur.jum),
     guard |-> LastOfKind(opts, "Guard", cur.guard),
     guardf |-> LastOfKind(opts, "Guard", cur.guardf),
     dp |-> LastOfKind(opts, "Precision", cur.dp),
     dpf |-> LastOfKind(opts, "Precision", cur.dpf)]

Front(q) == SubSeq(q, 1, Len(q) - 1)

\* C10: Option applies the non-nil options in argument order, so that the last
\* option on a field wins, and returns the inverse of the last non-nil option
\* only (nil without one); applying that inverse puts the field of the last
\* option back to what the options before it had left there, and nothing else.
C10_OptionLastInverse ==
    call.op = "Option" =>
        LET opts == NonNilOpts(call.opts)
            n    == Len(opts)
        IN  /\ call.inverse = 0 =>
                /\ c = LastWins(old, opts)
                /\ n = 0 => previous = Nil
                /\ n > 0 =>
                     previous =
                        Build(arch, Req(opts[n].kind,
                              FieldOf(LastWins(old, Front(opts)), opts[n].kind)))
            /\ (call.inverse = 1 /\ n > 0) =>
                /\ c = LastWins(older, Front(opts))
                /\ \A k \in {"Swedish", "Guard", "Precision"} \ {opts[n].kind} :
                      FieldOf(c, k) = FieldOf(old, k)

C10_Witness ==
    /\ call.op = "Option" /\ call.inverse = 1
    /\ call.opts = <<Req("Swedish", Interval005), Req("Swedish", Interval010)>>
    /\ older.Interval = Interval000
    /\ old.Interval = Interval010
    /\ c.Interval = Interval005

(***************************************************************************)
(* float64.  A finite value is the exact rational n/d with d > 0; the      *)
(* amounts of the model are small enough that float64's rounding error is  *)
(* far below the half unit that rnd compares with.                         *)
(***************************************************************************)
Fin(n, d) == [k |-> "fin", n |-> IF d < 0 THEN -n ELSE n, d |-> AbsInt(d)]
PInf == [k |-> "pinf", n |-> 1, d |-> 1]
NInf == [k |-> "ninf", n |-> -1, d |-> 1]
NaN == [k |-> "nan", n |-> 0, d |-> 1]

\* float64(i)
ToFloat(i) == Fin(i, 1)

\* -1, 0 or 1; 0 for NaN too
FSign(x) == IF x.n > 0 THEN 1 ELSE IF x.n < 0 THEN -1 ELSE 0

FInfOf(sgn) == IF sgn > 0 THEN PInf ELSE NInf

FMul(x, y) ==
    IF x.k = "nan" \/ y.k = "nan" THEN NaN
    ELSE IF x.k = "fin" /\ y.k = "fin" THEN Fin(x.n * y.n, x.d * y.d)
    ELSE IF FSign(x) * FSign(y) = 0 THEN NaN
    ELSE FInfOf(FSign(x) * FSign(y))

\* x / y; the zero divisors of the model are +0
FDiv(x, y) ==
    IF x.k = "nan" \/ y.k = "nan" THEN NaN
    ELSE IF x.k = "fin" /\ y.k = "fin" THEN
        IF y.n # 0 THEN Fin(x.n * y.d, x.d * y.n)
        ELSE IF x.n = 0 THEN NaN
        ELSE FInfOf(FSign(x))
    ELSE IF x.k = "fin" THEN Fin(0, 1)
    ELSE IF y.k # "fin" THEN NaN
    ELSE FInfOf(FSign(x) * (IF y.n < 0 THEN -1 ELSE 1))

FSub(x, y) ==
    IF x.k = "nan" \/ y.k = "nan" THEN NaN
    ELSE IF x.k = "fin" /\ y.k = "fin" THEN Fin(x.n * y.d - y.n * x.d, x.d * y.d)
    ELSE IF x.k = "fin" THEN FInfOf(-FSign(y))
    ELSE IF y.k = "fin" THEN x
    ELSE IF x.k = y.k THEN NaN
    ELSE x

\* x < y and x <= y; false when either is NaN
FLess(x, y) ==
    /\ x.k # "nan" /\ y.k # "nan"
    /\ \/ x.k = "ninf" /\ y.k # "ninf"
       \/ y.k = "pinf" /\ x.k # "pinf"
       \/ x.k = "fin" /\ y.k = "fin" /\ x.n * y.d < y.n * x.d

FLeq(x, y) ==
    /\ x.k # "nan" /\ y.k # "nan"
    /\ \/ x.k = "ninf"
       \/ y.k = "pinf"
       \/ x.k = "fin" /\ y.k = "fin" /\ x.n * y.d <= y.n * x.d

\* int64(x): truncation toward zero; what the architecture yields when the
\* truncated value is no int64
FloatToInt(a, x) ==
    CASE x.k = "nan" -> NaNToInt(a)
      [] x.k = "pinf" -> PosOverToInt(a)
      [] x.k = "ninf" -> NegOverToInt(a)
      [] OTHER ->
            LET q == AbsInt(x.n) \div x.d
                t == IF x.n < 0 THEN -q ELSE q
            IN  IF t > MaxInt64 THEN PosOverToInt(a)
                ELSE IF t < MinInt64 THEN NegOverToInt(a)
                ELSE t

\* math.Pow(x, e) for an exponent e that is a natural number
RECURSIVE FPow(_, _)
FPow(x, e) == IF e = 0 THEN Fin(1, 1) ELSE FMul(x, FPow(x, e - 1))

RoundTo == Fin(1, 2)
RoundToN == FMul(RoundTo, ToFloat(-1))

(***************************************************************************)
(* The arithmetic of Currency.  cur is the receiver, by value.             *)
(***************************************************************************)
\* rnd that rounds half away from zero
rndAwayFromZero(r, trunc) ==
    IF FLess(ToFloat(0), trunc)
    THEN IF FLeq(RoundTo, trunc) THEN Wrap(r + 1) ELSE r
    ELSE IF FLeq(trunc, RoundToN) THEN Wrap(r - 1) ELSE r

rnd(r, trunc) ==
    IF FLess(ToFloat(0), trunc)
    THEN IF FLeq(RoundTo, trunc) THEN Wrap(r + 1) ELSE r
    ELSE IF FLess(trunc, RoundToN) THEN Wrap(r - 1) ELSE r

Raw(cur) == cur.m

Set(cur, i) == [cur EXCEPT !.m = i, !.Valid = TRUE]

\* Getf that divides by the guard
GetfByGuard(cur) == FDiv(ToFloat(cur.m), ToFloat(cur.guardf))

Getf(cur) == FDiv(ToFloat(cur.m), ToFloat(cur.dpf))

Setf(a, cur, f) ==
    LET fDPf == FMul(f, ToFloat(cur.dpf))
        r    == FloatToInt(a, fDPf)
    IN  Set([cur EXCEPT !.Valid = TRUE], rnd(r, FSub(fDPf, ToFloat(r))))

\* Add without the overflow test
AddUnchecked(a, cur, d) ==
    [cur EXCEPT !.m = Wrap(cur.m + d.m), !.Valid = TRUE]

Add(a, cur, d) ==
    LET r == Wrap(cur.m + d.m)
    IN  IF And(Xor(r, cur.m), Xor(r, d.m)) < 0
        THEN New(a, <<>>)
        ELSE [cur EXCEPT !.m = r, !.Valid = TRUE]

\* Sub with & in the place of &^
SubAnd(a, cur, d) ==
    LET r == Wrap(cur.m - d.m)
    IN  IF And(Xor(r, cur.m), Xor(r, d.m)) < 0
        THEN New(a, <<>>)
        ELSE [cur EXCEPT !.m = r]

\* Sub that reports an overflow whenever the sign of the amount changes
SubSignOnly(a, cur, d) ==
    LET r == Wrap(cur.m - d.m)
    IN  IF Xor(r, cur.m) < 0
        THEN New(a, <<>>)
        ELSE [cur EXCEPT !.m = r]

Sub(a, cur, d) ==
    LET r == Wrap(cur.m - d.m)
    IN  IF AndNot(Xor(r, cur.m), Xor(r, d.m)) < 0
        THEN New(a, <<>>)
        ELSE [cur EXCEPT !.m = r]

\* Mul that builds its result on a fresh Currency
MulFresh(a, cur, d) ==
    Set(New(a, <<>>), Quot(Wrap(cur.m * d.m), cur.dp))

\* Mul with the overflow test of Add and Sub
MulChecked(a, cur, d) ==
    IF InRange(cur.m * d.m)
    THEN Set(cur, Quot(cur.m * d.m, cur.dp))
    ELSE New(a, <<>>)

Mul(a, cur, d) ==
    Set(cur, Quot(Wrap(cur.m * d.m), cur.dp))

Div(a, cur, d) ==
    LET f == FDiv(FDiv(FMul(FMul(ToFloat(cur.guardf), ToFloat(cur.dpf)),
                            ToFloat(cur.m)),
                       ToFloat(d.m)),
                  ToFloat(cur.guardf))
        i == FloatToInt(a, f)
    IN  Set(cur, rnd(i, FSub(f, ToFloat(i))))

Mulf(a, cur, f) ==
    LET i == Wrap(cur.m * FloatToInt(a, FMul(FMul(f, ToFloat(cur.guardf)),
                                             ToFloat(cur.dpf))))
        r == Quot(Quot(i, cur.guard), cur.dp)
    IN  Set(cur, rnd(r, FSub(FDiv(FDiv(ToFloat(i), ToFloat(cur.guardf)),
                                  ToFloat(cur.dpf)),
                             ToFloat(r))))

Neg(cur) ==
    IF cur.m # 0 THEN [cur EXCEPT !.m = Wrap(cur.m * (-1))] ELSE cur

Abs(cur) ==
    IF cur.m < 0 THEN Neg(cur) ELSE cur

Pow(a, cur, e) == Setf(a, cur, FPow(Getf(cur), e))

Sign(cur) == IF cur.m < 0 THEN -1 ELSE 1

Geti(cur) == Quot(cur.m, cur.dp)

Dec(cur) == Rem(Raw(Abs(cur)), cur.dp)

\* what Localize hands to c.fmt.FmtCurrency
Localize(cur) ==
    [op |-> "Localize", sign |-> Sign(cur), i |-> Geti(cur), dec |-> Dec(cur)]

(***************************************************************************)
(* The arithmetic specification: a Currency built with one of a few        *)
(* option lists, given an amount, then one operation on it; after an Add,  *)
(* the Sub of the same operand.                                            *)
(***************************************************************************)
ArithConfigs ==
    {<<>>,
     <<Req("Swedish", Interval005), Req("Guard", 1), Req("Precision", 10)>>,
     <<Req("Guard", 2), Req("Precision", 1), Req("Format", 2),
       Req("JSONMarshal", 2), Req("JSONUnmarshal", 2)>>}

\* the scalars of Mulf and the exponents of Pow
MulfArgs == {<<0, 1>>, <<1, 2>>, <<1, 1>>, <<3, 2>>, <<-1, 1>>}
PowArgs == {0, 1, 2}

InitArith ==
    /\ Outside(Width)
    /\ arch \in Archs
    /\ \E reqs \in ArithConfigs :
          c = New(arch, [k \in 1..Len(reqs) |-> Build(arch, reqs[k])])
    /\ previous = Nil
    /\ call = NoCall
    /\ old = c
    /\ older = c

\* the receiver is as constructed, or as Set left it
Ready == call.op \in {"none", "Set"}

\* the scale guard * dp of the receiver is an int64 value
ScaleFits == c.guard * c.dp <= MaxInt64

\* the argument d of Add, Sub, Mul and Div with the amount j
Operand(j) == Set(New(arch, <<>>), j)

Returned(name, j, f, res) ==
    /\ c' = res
    /\ call' = [NoCall EXCEPT !.op = name, !.d = j, !.f = f]
    /\ old' = c
    /\ older' = c
    /\ UNCHANGED <<previous, arch, apart>>

SetCall(i) == call.op = "none" /\ Returned("Set", i, <<0, 1>>, Set(c, i))

AddCall(j) == Ready /\ Returned("Add", j, <<0, 1>>, Add(arch, c, Operand(j)))

SubCall(j) == Ready /\ Returned("Sub", j, <<0, 1>>, Sub(arch, c, Operand(j)))

\* the operand of Mul has the precision of the receiver
MulCall(j) == Ready /\ Returned("Mul", j, <<0, 1>>, Mul(arch, c, Set(c, j)))

DivCall(j) ==
    Ready /\ ScaleFits /\ Returned("Div", j, <<0, 1>>, Div(arch, c, Operand(j)))

MulfCall(f) ==
    Ready /\ ScaleFits /\ Returned("Mulf", 0, f, Mulf(arch, c, Fin(f[1], f[2])))

PowCall(e) ==
    Ready /\ ScaleFits /\ Returned("Pow", e, <<0, 1>>, Pow(arch, c, e))

NegCall == Ready /\ Returned("Neg", 0, <<0, 1>>, Neg(c))

AbsCall == Ready /\ Returned("Abs", 0, <<0, 1>>, Abs(c))

\* c.Setf(c.Set(j).Getf()): Setf of the float64 that stands for the amount j
SetfCall(j) ==
    Ready /\ Returned("Setf", j, <<j, c.dp>>, Setf(arch, c, Getf(Set(c, j))))

\* c.Localize(): the receiver is a copy, the formatter gets the triple
LocalizeCall ==
    /\ Ready
    /\ out' = Localize(c)
    /\ call' = [NoCall EXCEPT !.op = "Localize"]
    /\ old' = c
    /\ older' = c
    /\ UNCHANGED <<c, previous, arch, bits, logger, ss, supplied>>

\* a.Sub(b) and a.Add(b.Neg()) of the same receiver and the same operand
SubAddNegCall(j) ==
    /\ Ready
    /\ out' = [op |-> "SubAddNeg",
               sub |-> Sub(arch, c, Operand(j)),
               add |-> Add(arch, c, Neg(Operand(j)))]
    /\ call' = [NoCall EXCEPT !.op = "SubAddNeg", !.d = j]
    /\ old' = c
    /\ older' = c
    /\ UNCHANGED <<c, previous, arch, bits, logger, ss, supplied>>

\* a.Add(b).Sub(b): the Sub of the operand the Add before it was given
SubBackCall ==
    /\ call.op = "Add"
    /\ c' = Sub(arch, c, Operand(call.d))
    /\ call' = [call EXCEPT !.op = "Sub", !.inverse = 1]
    /\ old' = c
    /\ older' = old
    /\ UNCHANGED <<previous, arch, apart>>

NextArith ==
    \/ \E i \in Int64 : SetCall(i)
    \/ \E j \in Int64 : AddCall(j)
    \/ \E j \in Int64 : SubCall(j)
    \/ \E j \in Int64 : MulCall(j)
    \/ \E j \in Int64 : DivCall(j)
    \/ \E f \in MulfArgs : MulfCall(f)
    \/ \E e \in PowArgs : PowCall(e)
    \/ NegCall
    \/ AbsCall
    \/ \E j \in Int64 : SetfCall(j)
    \/ LocalizeCall
    \/ \E j \in Int64 : SubAddNegCall(j)
    \/ SubBackCall

SpecArith == InitArith /\ [][NextArith]_vars

(***************************************************************************)
(* Properties of the arithmetic.                                           *)
(***************************************************************************)
\* the configuration a Currency carries
Config(cur) ==
    [Interval |-> cur.Interval, fmt |-> cur.fmt, jm |-> cur.jm, jum |-> cur.jum,
     guard |-> cur.guard, guardf |-> cur.guardf, dp |-> cur.dp, dpf |-> cur.dpf]

\* the last operation was the direct call of name on the receiver old
Did(name) == call.op = name /\ call.inverse = 0

\* the last operation was an Add or a Sub whose exact result is no int64
Overflowed ==
    \/ call.op = "Add" /\ ~InRange(old.m + call.d)
    \/ call.op = "Sub" /\ ~InRange(old.m - call.d)

\* C1: a.Add(b) is the default instance New() exactly when the sum a+b is
\* outside the int64 range; otherwise its amount is a+b and it is valid.
C1_AddOverflow ==
    Did("Add") =>
        IF InRange(old.m + call.d)
        THEN c = [old EXCEPT !.m = old.m + call.d, !.Valid = TRUE]
        ELSE c = New(arch, <<>>) /\ c.m = 0 /\ ~c.Valid

C1_Witness ==
    /\ Did("Add")
    /\ old.m = MaxInt64 \div 2 + 1
    /\ call.d = MaxInt64 \div 2 + 1
    /\ c.m = 0 /\ ~c.Valid

\* C2: a.Sub(b) takes its overflow path, returning the default instance New(),
\* exactly when the difference a-b is outside the int64 range; otherwise it
\* returns the receiver with the amount a-b.  For a valid receiver the result
\* is invalid exactly when the difference is outside the range.
C2_SubOverflow ==
    Did("Sub") =>
        /\ IF InRange(old.m - call.d)
           THEN c = [old EXCEPT !.m = old.m - call.d]
           ELSE c = New(arch, <<>>) /\ c.m = 0 /\ ~c.Valid
        /\ old.Valid => (~c.Valid <=> ~InRange(old.m - call.d))

C2_Witness ==
    /\ Did("Sub")
    /\ old.m = MinInt64 /\ call.d = 1
    /\ c.m = 0 /\ ~c.Valid

\* C3: when a.Add(b) does not overflow, a.Add(b).Sub(b) does not take the
\* overflow path of Sub and has the amount of a.
C3_AddSubRoundTrip ==
    (call.op = "Sub" /\ call.inverse = 1 /\ InRange(older.m + call.d)) =>
        /\ Raw(c) = Raw(older)
        /\ c = [old EXCEPT !.m = older.m]

C3_Witness ==
    /\ call.op = "Sub" /\ call.inverse = 1
    /\ older.m = -3 /\ call.d = 5 /\ old.m = 2
    /\ Raw(c) = -3 /\ c.Valid

ArithOps == {"Add", "Sub", "Mul", "Div", "Mulf", "Neg", "Abs", "Pow"}

\* C4 as claimed: every arithmetic operation returns a value that carries the
\* configuration of its receiver, also when Add or Sub overflows.
C4_ConfigAlwaysKept ==
    call.op \in ArithOps => Config(c) = Config(old)

\* C4: every arithmetic operation returns a value that carries the
\* configuration of its receiver, except an Add or a Sub that overflows, which
\* returns New() with the package default configuration.
C4_ConfigKeptUnlessOverflow ==
    call.op \in ArithOps =>
        IF Overflowed
        THEN Config(c) = Config(New(arch, <<>>))
        ELSE Config(c) = Config(old)

C4_Witness ==
    /\ call.op = "Mul"
    /\ Config(old) # Config(New(arch, <<>>))
    /\ old.m * call.d > MaxInt64
    /\ Config(c) = Config(old)

\* C14: for every amount m, the minimum included, Abs returns the absolute
\* value of m, which is not negative, and Neg returns -m.
C14_AbsNegExact ==
    /\ Did("Abs") => Raw(c) >= 0 /\ Raw(c) = AbsInt(old.m)
    /\ Did("Neg") => Raw(c) = -old.m

\* the int64 value that differs from x by a multiple of 2^bits
Wrapped(x) == CHOOSE w \in Int64 : (w - x) % Pow2(bits) = 0

\* p / d truncated toward zero, d > 0: the multiple of d between 0 and p that
\* is less than d away from p
Truncated(p, d) ==
    CHOOSE q \in Int64 :
        /\ AbsInt(p - q * d) < d
        /\ IF p >= 0 THEN q * d <= p /\ q >= 0 ELSE q * d >= p /\ q <= 0

\* C15: a.Mul(b) is the receiver made valid with the amount
\* (a.amount * b.amount) / dp, the product wrapped to int64 and the quotient
\* truncated toward zero; it is never the default instance, also when the
\* product leaves the int64 range.
C15_MulWrapsTruncates ==
    (Did("Mul") /\ old.dp > 0) =>
        /\ c.Valid
        /\ Raw(c) = Truncated(Wrapped(old.m * call.d), old.dp)
        /\ c = [old EXCEPT !.m = Raw(c), !.Valid = TRUE]
        /\ c # New(arch, <<>>)

C15_Witness ==
    /\ Did("Mul")
    /\ old.dp = 10 /\ old.m = 6 /\ call.d = 7
    /\ ~InRange(old.m * call.d)
    /\ Raw(c) = 1 /\ c.Valid

\* x and y are the same finite number
FEq(x, y) == x.k = "fin" /\ y.k = "fin" /\ x.n * y.d = y.n * x.d

C20_TripleDecomposes ==
    (call.op = "Localize" /\ c.dp > 0) =>
        /\ out.i = Truncated(c.m, c.dp)
        /\ 0 <= out.dec /\ out.dec < c.dp
        /\ out.sign = IF c.m < 0 THEN -1 ELSE 1
        /\ c.m = out.sign * (AbsInt(out.i) * c.dp + out.dec)

\* C22: for every receiver a, valid or not, and every operand b other than
\* the minimum, when neither operation overflows, a.Sub(b) and a.Add(b.Neg())
\* have the same Raw amount and the same Valid flag.
C22_SubIsAddNeg ==
    (call.op = "SubAddNeg" /\ call.d # MinInt64 /\ InRange(c.m - call.d)) =>
        /\ Raw(out.sub) = Raw(out.add)
        /\ out.sub.Valid = out.add.Valid

\* C23: for every amount m and every positive guard and dp, Mulf(1.0) returns
\* the Raw amount m, whatever the intermediate product m * guard * dp is.
C23_MulfOneIsIdentity ==
    (Did("Mulf") /\ call.f = <<1, 1>> /\ old.guard > 0 /\ old.dp > 0) =>
        Raw(c) = old.m

(***************************************************************************)
(* Swedish rounding.                                                       *)
(***************************************************************************)
FAdd(x, y) == FSub(x, FMul(y, ToFloat(-1)))

\* math.Floor(x); an infinity and NaN are returned as they are
FFloor(x) == IF x.k = "fin" THEN Fin(x.n \div x.d, 1) ELSE x

\* Round without the half added
RoundFloor(f) == FFloor(f)

Round(f) == FFloor(FAdd(f, Fin(1, 2)))

\* c.Setf(Round(c.Getf()*factor) / factor)
SwedishBy(a, cur, factor) ==
    Setf(a, cur, FDiv(Round(FMul(Getf(cur), ToFloat(factor))), ToFloat(factor)))

\* the method Swedish without the special case of Interval015
CurrencySwedishPlain(a, cur, opts) ==
    LET c1 == Option(a, opts, cur).cur
    IN  CASE c1.Interval = Interval005 -> SwedishBy(a, c1, 20)
          [] c1.Interval \in {Interval010, Interval015} -> SwedishBy(a, c1, 10)
          [] c1.Interval = Interval025 -> SwedishBy(a, c1, 4)
          [] c1.Interval = Interval050 -> SwedishBy(a, c1, 2)
          [] c1.Interval = Interval100 -> SwedishBy(a, c1, 1)
          [] OTHER -> c1

\* the method c.Swedish(opts...); the option constructor has the name Swedish
CurrencySwedish(a, cur, opts) ==
    LET c1 == Option(a, opts, cur).cur
    IN  CASE c1.Interval = Interval005 -> SwedishBy(a, c1, 20)
          [] c1.Interval = Interval010 -> SwedishBy(a, c1, 10)
          [] c1.Interval = Interval015 ->
                SwedishBy(a,
                          IF Rem(c1.m, 5) = 0
                          THEN [c1 EXCEPT !.m = Wrap(c1.m - 1)]
                          ELSE c1,
                          10)
          [] c1.Interval = Interval025 -> SwedishBy(a, c1, 4)
          [] c1.Interval = Interval050 -> SwedishBy(a, c1, 2)
          [] c1.Interval = Interval100 -> SwedishBy(a, c1, 1)
          [] OTHER -> c1

(***************************************************************************)
(* The Swedish rounding specification: a Currency of precision 2 is given  *)
(* an amount and then rounded once with the interval of the call.          *)
(***************************************************************************)
InitSwedish ==
    /\ Outside(WideWidth)
    /\ arch \in Archs
    /\ c = New(arch, <<Precision(arch, 100)>>)
    /\ previous = Nil
    /\ call = NoCall
    /\ old = c
    /\ older = c

\* c.Swedish(Swedish(iv))
SwedishCall(iv) ==
    /\ call.op = "Set"
    /\ Returned("Swedish", iv, <<0, 1>>, CurrencySwedish(arch, c, <<Swedish(iv)>>))

NextSwedish ==
    \/ \E i \in Int64 : SetCall(i)
    \/ \E iv \in Interval000..interval999 : SwedishCall(iv)

SpecSwedish == InitSwedish /\ [][NextSwedish]_vars

\* the raw units between two results of the interval iv at dp = 100
Step(iv) ==
    CASE iv = Interval005 -> 5
      [] iv \in {Interval010, Interval015} -> 10
      [] iv = Interval025 -> 25
      [] iv = Interval050 -> 50
      [] OTHER -> 100

\* the multiple of s nearest to m >= 0, the larger one on a tie
Nearest(m, s) ==
    CHOOSE x \in 0..(m + s) : x % s = 0 /\ 2 * (x - m) <= s /\ 2 * (m - x) < s

\* the multiple of s nearest to m >= 0, the smaller one on a tie
NearestLow(m, s) ==
    CHOOSE x \in 0..(m + s) : x % s = 0 /\ 2 * (x - m) < s /\ 2 * (m - x) <= s

HalfUpIntervals ==
    {Interval005, Interval010, Interval025, Interval050, Interval100}

LogLevels == 0..(StdLevelTrace + 1)
ArgValues == {"key", "e1", "e2", "v"}
ArgLists == SeqsUpTo(ArgValues, MaxArgs)
Formatters == {0, 2}

InitLog ==
    /\ Outside(Width)
    /\ arch = "amd64"
    /\ c = New(arch, <<>>)
    /\ previous = Nil
    /\ call = NoCall
    /\ old = c
    /\ older = c

SetLevelCall(lv) ==
    /\ logger' = SetLevel(logger, lv)
    /\ call' = [NoCall EXCEPT !.op = "SetLevel", !.d = lv]
    /\ out' = NoOut
    /\ UNCHANGED <<c, previous, arch, old, older, bits, ss, supplied>>

ErrorCall(args) ==
    /\ out' = Error(logger, "msg", args)
    /\ call' = [NoCall EXCEPT !.op = "Error", !.opts = args]
    /\ UNCHANGED <<c, previous, arch, old, older, bits, logger, ss, supplied>>

\* Format(f) as the caller evaluates it: with f nil it calls log.Fatal, which
\* hands the entry to the logger, and goes on to return the closure
FormatPanics(l, f) ==
    f = 0 /\ Fatal(l, "money=Format", <<"err", "e1">>) = "panic"

\* New(Format(f)) when new, c.Option(Format(f)) otherwise
FormatCall(new, f) ==
    /\ call' = [NoCall EXCEPT !.op = IF new THEN "New" ELSE "Option",
                              !.opts = <<Req("Format", f)>>, !.d = f]
    /\ old' = c
    /\ IF FormatPanics(logger, f)
       THEN /\ out' = [op |-> "Format", panic |-> TRUE]
            /\ UNCHANGED <<c, previous>>
       ELSE /\ out' = [op |-> "Format", panic |-> FALSE]
            /\ c' = Option(arch, <<Format(f)>>, IF new THEN NewLiteral ELSE c).cur
            /\ previous' = Option(arch, <<Format(f)>>,
                                  IF new THEN NewLiteral ELSE c).inv
    /\ UNCHANGED <<arch, older, bits, logger, ss, supplied>>

NextLog ==
    \/ \E lv \in LogLevels : SetLevelCall(lv)
    \/ \E args \in ArgLists : ErrorCall(args)
    \/ \E f \in Formatters : FormatCall(TRUE, f)
    \/ \E f \in Formatters : FormatCall(FALSE, f)

SpecLog == InitLog /\ [][NextLog]_vars

\* C13: no Currency has the nil formatter, and New(Format(nil)) and
\* Option(Format(nil)) end in a panic whatever the level of the logger is.
C13_NilFormatterFatal ==
    /\ c.fmt # 0
    /\ (call.op \in {"New", "Option"} /\ call.d = 0) => out.panic

\* C18: Error returns without panicking for every argument list: args[1] when
\* the number of arguments is even and args[1] is an error, otherwise the error
\* built from the message.
C18_ErrorNeverPanics ==
    call.op = "Error" =>
        /\ ~out.panic
        /\ out.ret = IF Len(call.opts) % 2 = 0 /\ Len(call.opts) >= 2
                        /\ IsError(call.opts[2])
                     THEN call.opts[2]
                     ELSE "msg"

(***************************************************************************)
(* The rounding helper on its own: rnd is applied to an int64 r and a      *)
(* remainder t in (-1, 1), and to -r and -t.                               *)
(***************************************************************************)
Remainders ==
    {<<n, 2 * RndHalves>> : n \in (1 - 2 * RndHalves)..(2 * RndHalves - 1)}

InitRnd ==
    /\ Outside(Width)
    /\ arch = "amd64"
    /\ c = New(arch, <<>>)
    /\ previous = Nil
    /\ \E r \in Int64, t \in Remainders : call = [NoCall EXCEPT !.d = r, !.f = t]
    /\ old = c
    /\ older = c

\* rnd(r, t) and rnd(-r, -t) for the r and t of the behaviour
RndCall ==
    /\ call.op = "none"
    /\ out' = [op |-> "rnd",
               res |-> rnd(call.d, Fin(call.f[1], call.f[2])),
               mirror |-> rnd(Wrap(-call.d), Fin(-call.f[1], call.f[2]))]
    /\ call' = [call EXCEPT !.op = "rnd"]
    /\ UNCHANGED <<c, previous, arch, old, older, bits, logger, ss, supplied>>

NextRnd == RndCall

SpecRnd == InitRnd /\ [][NextRnd]_vars

\* C17 as claimed: rnd rounds half away from zero, r+1 for t >= 0.5, r-1 for
\* t <= -0.5 and r otherwise, so that rnd(-r, -t) = -rnd(r, t) for every t.
C17_RndHalfAwayFromZero ==
    call.op = "rnd" =>
        /\ out.res = IF 2 * call.f[1] >= call.f[2] THEN Wrapped(call.d + 1)
                     ELSE IF 2 * call.f[1] <= -call.f[2] THEN Wrapped(call.d - 1)
                     ELSE call.d
        /\ out.mirror = Wrapped(-out.res)

\* C17: rnd rounds half toward plus infinity: it returns r+1 for t >= 0.5,
\* r-1 for t < -0.5 and r otherwise, -0.5 included (int64 arithmetic, which
\* wraps); rnd(-r, -t) = -rnd(r, t) for every remainder t in (-1, 1) other
\* than 0.5 and -0.5, where rnd(r, 0.5) = r+1 and rnd(-r, -0.5) = -r.
C17_RndHalfUp ==
    call.op = "rnd" =>
        /\ out.res = IF 2 * call.f[1] >= call.f[2] THEN Wrapped(call.d + 1)
                     ELSE IF 2 * call.f[1] < -call.f[2] THEN Wrapped(call.d - 1)
                     ELSE call.d
        /\ AbsInt(2 * call.f[1]) # call.f[2] => out.mirror = Wrapped(-out.res)
        /\ 2 * call.f[1] = call.f[2] =>
              out.res = Wrapped(call.d + 1) /\ out.mirror = Wrapped(-call.d)

C17_Witness ==
    /\ call.op = "rnd"
    /\ call.d = 3
    /\ 2 * call.f[1] = -call.f[2]
    /\ out.res = 3

(***************************************************************************)
(* SectionSlice (src/config/elements_section.go).  A *Section is a record; *)
(* isnil tells the nil pointer.  The sections of the model have no Groups. *)
(***************************************************************************)
NilSection ==
    [isnil |-> TRUE, ID |-> "", Label |-> "", Scope |-> 0, SortOrder |-> 0,
     Permission |-> 0]

Section(id, label, scope, sortOrder, permission) ==
    [isnil |-> FALSE, ID |-> id, Label |-> label, Scope |-> scope,
     SortOrder |-> sortOrder, Permission |-> permission]

\* cs.Groups.Merge(s.Groups...) reports an error: never, for no Groups
GroupsMergeFails(s) == FALSE

\* ss.FindByID(id): the index of the first section of that ID, 0 for not found
FindByID(slice, id) ==
    LET found == {i \in 1..Len(slice) : ~slice[i].isnil /\ slice[i].ID = id}
    IN  IF found = {} THEN 0
        ELSE CHOOSE i \in found : \A j \in found : i <= j

\* merge that copies every field of s, the empty ones too
mergeOverwrite(slice, s) ==
    IF s.isnil THEN slice
    ELSE LET i    == FindByID(slice, s.ID)
             base == IF i = 0 THEN Append(slice, s) ELSE slice
             k    == IF i = 0 THEN Len(base) ELSE i
         IN  [base EXCEPT ![k] = s]

\* ss.merge(s)
merge(slice, s) ==
    IF s.isnil THEN slice
    ELSE LET i    == FindByID(slice, s.ID)
             base == IF i = 0
                     THEN Append(slice, Section(s.ID, "", 0, 0, 0))
                     ELSE slice
             k    == IF i = 0 THEN Len(base) ELSE i
             cs   == base[k]
         IN  [base EXCEPT ![k] =
                [cs EXCEPT
                   !.Label = IF s.Label # "" THEN s.Label ELSE @,
                   !.Scope = IF s.Scope > 0 THEN s.Scope ELSE @,
                   !.SortOrder = IF s.SortOrder # 0 THEN s.SortOrder ELSE @,
                   !.Permission = IF s.Permission > 0 THEN s.Permission ELSE @]]

\* ss.Merge(sections...): slice is the SectionSlice after the call, err tells
\* whether it returned an error
RECURSIVE Merge(_, _)
Merge(slice, sections) ==
    IF sections = <<>> THEN [slice |-> slice, err |-> FALSE]
    ELSE IF Head(sections).isnil THEN Merge(slice, Tail(sections))
    ELSE IF GroupsMergeFails(Head(sections))
    THEN [slice |-> merge(slice, Head(sections)), err |-> TRUE]
    ELSE Merge(merge(slice, Head(sections)), Tail(sections))

\* ss.MergeMultiple(sSlices...)
RECURSIVE MergeMultiple(_, _)
MergeMultiple(slice, sSlices) ==
    IF sSlices = <<>> THEN [slice |-> slice, err |-> FALSE]
    ELSE LET r == Merge(slice, Head(sSlices))
         IN  IF r.err THEN r ELSE MergeMultiple(r.slice, Tail(sSlices))

(***************************************************************************)
(* The section specification: a SectionSlice with pairwise distinct IDs,   *)
(* then Merge and MergeMultiple calls.  supplied is the history: the       *)
(* sections of the first slice and of every call, in the order given.      *)
(***************************************************************************)
SectionInputs ==
    {NilSection,
     Section("a", "L1", 1, -1, 1),
     Section("a", "", 0, 0, 0),
     Section("a", "L2", 0, 2, 0),
     Section("b", "", 2, 0, 2),
     Section("b", "L3", 0, 0, 0)}

FirstSlices ==
    {<<>>,
     <<Section("a", "L1", 1, -1, 1)>>,
     <<Section("b", "L3", 0, 3, 0), NilSection, Section("a", "", 0, 0, 1)>>}

InitSection ==
    /\ bits = Width
    /\ out = NoOut
    /\ logger = NewStdLogger
    /\ ss \in FirstSlices
    /\ supplied = ss
    /\ arch = "amd64"
    /\ c = New(arch, <<>>)
    /\ previous = Nil
    /\ call = NoCall
    /\ old = c
    /\ older = c

MergeCall(sections) ==
    /\ call.d + Len(sections) <= MaxMerged
    /\ ss' = Merge(ss, sections).slice
    /\ supplied' = supplied \o sections
    /\ call' = [NoCall EXCEPT !.op = "Merge", !.d = call.d + Len(sections)]
    /\ UNCHANGED <<c, previous, arch, old, older, bits, out, logger>>

MergeMultipleCall(sl1, sl2) ==
    /\ call.d + Len(sl1) + Len(sl2) <= MaxMerged
    /\ ss' = MergeMultiple(ss, <<sl1, sl2>>).slice
    /\ supplied' = supplied \o sl1 \o sl2
    /\ call' = [NoCall EXCEPT !.op = "MergeMultiple",
                              !.d = call.d + Len(sl1) + Len(sl2)]
    /\ UNCHANGED <<c, previous, arch, old, older, bits, out, logger>>

NextSection ==
    \/ \E sections \in SeqsUpTo(SectionInputs, MaxMerged) : MergeCall(sections)
    \/ \E sl1 \in SeqsUpTo(SectionInputs, MaxMerged - 1),
          sl2 \in SeqsUpTo(SectionInputs, 1) : MergeMultipleCall(sl1, sl2)

SpecSection == InitSection /\ [][NextSection]_vars

\* the sections of q that are not nil
NonNil(q) == SelectSeq(q, LAMBDA s : ~s.isnil)

\* where the ID id was first supplied
FirstSeen(id) ==
    CHOOSE i \in 1..Len(NonNil(supplied)) :
        /\ NonNil(supplied)[i].ID = id
        /\ \A j \in 1..(i - 1) : NonNil(supplied)[j].ID # id

\* the last section supplied for id whose field fld is not the zero value z,
\* and z when there is none
LastSupplied(id, fld, z) ==
    LET seen == NonNil(supplied)
        idx  == {i \in 1..Len(seen) : seen[i].ID = id /\ seen[i][fld] # z}
    IN  IF idx = {} THEN z
        ELSE seen[CHOOSE i \in idx : \A j \in idx : j <= i][fld]

\* C19: after any sequence of Merge and MergeMultiple calls on a slice that
\* started with pairwise distinct IDs, the slice holds exactly one section per
\* ID supplied, in first-seen order, and each of Label, Scope, SortOrder and
\* Permission is the last non-empty value supplied for that ID.
C19_LastItemWins ==
    LET now == NonNil(ss)
    IN  /\ {now[k].ID : k \in 1..Len(now)}
             = {NonNil(supplied)[i].ID : i \in 1..Len(NonNil(supplied))}
        /\ \A j, k \in 1..Len(now) :
              j < k => FirstSeen(now[j].ID) < FirstSeen(now[k].ID)
        /\ \A k \in 1..Len(now) :
              /\ now[k].Label = LastSupplied(now[k].ID, "Label", "")
              /\ now[k].Scope = LastSupplied(now[k].ID, "Scope", 0)
              /\ now[k].SortOrder = LastSupplied(now[k].ID, "SortOrder", 0)
              /\ now[k].Permission = LastSupplied(now[k].ID, "Permission", 0)

C19_Witness ==
    /\ call.op = "MergeMultiple"
    /\ supplied = <<Section("a", "L1", 1, -1, 1), Section("b", "", 2, 0, 2),
                    Section("a", "", 0, 0, 0), Section("a", "L2", 0, 2, 0)>>
    /\ ss = <<Section("a", "L2", 1, 2, 1), Section("b", "", 2, 0, 2)>>

(***************************************************************************)
(* The fixed point specification: a Currency of precision dp = 1, 10, 100  *)
(* or 1000 is given an amount and, when the amount is an exact multiple of *)
(* the interval of the call, rounded once.  int64 is three bits wider than *)
(* in the Swedish rounding specification, so that dp = 1000 is an int64.   *)
(***************************************************************************)
FixedPrecisions == {1, 10, 100, 1000}

\* the factor the method Swedish multiplies by for the interval iv
Factor(iv) ==
    CASE iv = Interval005 -> 20
      [] iv \in {Interval010, Interval015} -> 10
      [] iv = Interval025 -> 4
      [] iv = Interval050 -> 2
      [] OTHER -> 1

\* the amount m is a whole number of intervals: m/dp is a multiple of 1/Factor
ExactMultiple(m, p, iv) == (m * Factor(iv)) % p = 0

InitFixed ==
    /\ Outside(WideWidth + 3)
    /\ arch \in Archs
    /\ \E p \in FixedPrecisions : c = New(arch, <<Precision(arch, p)>>)
    /\ previous = Nil
    /\ call = NoCall
    /\ old = c
    /\ older = c

\* c.Swedish(Swedish(iv)) for an amount that is an exact multiple of iv
FixedCall(iv) ==
    /\ call.op = "Set"
    /\ ExactMultiple(c.m, c.dp, iv)
    /\ Returned("SwedishFixed", iv, <<0, 1>>,
                CurrencySwedish(arch, c, <<Swedish(iv)>>))

NextFixed ==
    \/ \E i \in Int64 : SetCall(i)
    \/ \E iv \in Interval005..Interval100 : FixedCall(iv)

SpecFixed == InitFixed /\ [][NextFixed]_vars

\* C21: for every interval, every precision dp = 1, 10, 100, 1000 and every
\* amount that is an exact multiple of the interval, zero included, Swedish
\* returns the same Raw amount.
C21_SwedishFixedPoints ==
    call.op = "SwedishFixed" => Raw(c) = old.m

====
